---- MODULE Spec2Model ----
(***************************************************************************)
(* Product catalogue and shopping cart service                              *)
(* (src/03_python_fastapi_project/main.py, database.py).                    *)
(*                                                                          *)
(* The store is the three tables of database.py.  Every request handler of  *)
(* main.py is one action.  With requests served one at a time:              *)
(*   SpecProducts     the product service from the empty store;             *)
(*   SpecCatalogue    the product service on a store with carts and items;  *)
(*   SpecCart         add_to_cart and remove_from_cart;                     *)
(*   SpecAnyQuantity  the same with any integer quantity;                   *)
(*   SpecShop         the cart service with delete_product and price        *)
(*                    updates;                                              *)
(*   SpecRemove       remove_from_cart await by await, able to stop.        *)
(* SpecConc serves add_to_cart requests concurrently: a handler is a        *)
(* coroutine, each `await` on the session is a point where another request  *)
(* may run, and each request has a session of its own (database.py get_db). *)
(***************************************************************************)
EXTENDS Integers, FiniteSets, Sequences, TLC

\* ------------------------------------------------------------- bounds
MaxStock == 5
MaxQty == 2
MaxRequests == 3

\* ------------------------------------------------------------- inputs
Names == {"Widget", "Gadget", "Gizmo"}
Prices == {5, 9}
Texts == {"blue"}
Stocks == 0..MaxStock
\* The stock values the product service's request bodies carry.
StockInputs == {0, MaxStock}
Quantities == 1..MaxQty
\* The row ids the model lets the tables hold.
ProductIds == {1, 2}
CartIds == {1, 2}
ItemIds == {1, 2}
Sessions == {"s1", "s2"}

\* Optional values of the request bodies and of a nullable column
\* (`str | None`): None is the empty sequence, a value v is <<v>>.
None == <<>>
Some(v) == <<v>>
Opt(S) == {None} \cup {Some(v) : v \in S}

VARIABLES
    products,    \* table products: id -> [name, price, description, stock]
    carts,       \* table carts: the set of cart ids
    cart_items,  \* table cart_items: id -> [cart_id, product_id, quantity]
    last,        \* the most recent completed request and its response
    prev,        \* when last is a cart item request: the request completed before it
    sess,        \* SpecConc: each session's add_to_cart coroutine
    hist         \* SpecConc: initial stock and quantities sold per product

vars == <<products, carts, cart_items, last, prev, sess, hist>>

\* ------------------------------------------------------------- store
\* The id SQLite gives a new row of an INTEGER PRIMARY KEY table: one more
\* than the largest id in the table, 1 for an empty table.
Max(S) == CHOOSE m \in S : \A x \in S : x <= m
NextId(rows) == IF DOMAIN rows = {} THEN 1 ELSE Max(DOMAIN rows) + 1
NextCartId == IF carts = {} THEN 1 ELSE Max(carts) + 1

Insert(rows, id, row) == [i \in DOMAIN rows \cup {id} |-> IF i = id THEN row ELSE rows[i]]
Delete(rows, id) == [i \in DOMAIN rows \ {id} |-> rows[i]]

\* Mutant of ProductsNamed: the name is compared with the wrong column.
ProductsNamed_wrong(P, name) == {i \in DOMAIN P : P[i].description = Some(name)}

\* select(Product).filter(Product.name == name)
ProductsNamed(P, name) == {i \in DOMAIN P : P[i].name = name}
\* select(CartItem).filter(CartItem.cart_id == c, CartItem.product_id == p)
ItemsOf(I, c, p) == {i \in DOMAIN I : I[i].cart_id = c /\ I[i].product_id = p}
\* select(CartItem).filter(CartItem.cart_id == c)
CartItemsOf(I, c) == {i \in DOMAIN I : I[i].cart_id = c}

\* The record of a request: what was asked, and the response's status.
NoRequest == [op |-> "none", status |-> 0, detail |-> "", id |-> 0, name |-> "", cart_id |-> 0,
              product_id |-> 0, item_id |-> 0, quantity |-> 0,
              stock_before |-> 0, qty_before |-> 0, fields |-> {}, items |-> <<>>]
Response(op, status, detail) == [NoRequest EXCEPT !.op = op, !.status = status, !.detail = detail]

Idle == [pc |-> "idle", cart_id |-> 0, product_id |-> 0, quantity |-> 0,
         stock |-> 0, existing |-> 0, existing_quantity |-> 0, stock_before |-> 0]

TypeOK ==
    /\ DOMAIN products \subseteq ProductIds
    /\ carts \subseteq CartIds
    /\ DOMAIN cart_items \subseteq ItemIds

\* ------------------------------------------------------------- products
\* POST /products/
create_product(name, price, description, stock) ==
    /\ NextId(products) \in ProductIds
    /\ IF ProductsNamed(products, name) # {}
       THEN /\ last' = [Response("createProduct", 400, "Product name already exists")
                           EXCEPT !.name = name]
            /\ UNCHANGED products
       ELSE /\ products' = Insert(products, NextId(products),
                                  [name |-> name, price |-> price,
                                   description |-> description, stock |-> stock])
            /\ last' = [Response("createProduct", 200, "") EXCEPT !.id = NextId(products),
                           !.name = name]
    /\ UNCHANGED <<carts, cart_items, prev, sess, hist>>

\* Mutant of Updated: a field the request leaves out is written as NULL.
Updated_clearing(row, upd) ==
    [name |-> IF upd.name # None THEN upd.name[1] ELSE row.name,
     price |-> IF upd.price # None THEN upd.price[1] ELSE row.price,
     description |-> upd.description,
     stock |-> IF upd.stock # None THEN upd.stock[1] ELSE row.stock]

\* The row update_product commits when no check fails (lines 130-141).
Updated(row, upd) ==
    [name |-> IF upd.name # None THEN upd.name[1] ELSE row.name,
     price |-> IF upd.price # None THEN upd.price[1] ELSE row.price,
     description |-> IF upd.description # None THEN upd.description ELSE row.description,
     stock |-> IF upd.stock # None THEN upd.stock[1] ELSE row.stock]

\* The name of the request body, "" when it has none.
SuppliedName(upd) == IF upd.name # None THEN upd.name[1] ELSE ""

\* The fields the request body supplies (those that are not None).
SuppliedFields(upd) == {f \in {"name", "price", "description", "stock"} : upd[f] # None}

\* Mutant of NameTaken: the collision check skipped.
NameTaken_unchecked(P, id, upd) == FALSE

\* The name check of update_product: any row with the supplied name collides.
NameTaken(P, id, upd) == upd.name # None /\ ProductsNamed(P, upd.name[1]) # {}

UpdateRequest(id, upd, status, detail) ==
    [Response("updateProduct", status, detail) EXCEPT !.id = id, !.name = SuppliedName(upd),
        !.fields = SuppliedFields(upd)]

\* Mutant of update_product: on a name collision the other supplied fields are
\* committed before the request is refused.
update_product_partial(id, upd) ==
    /\ IF id \notin DOMAIN products
       THEN /\ last' = UpdateRequest(id, upd, 404, "Desired product does not exist!")
            /\ UNCHANGED products
       ELSE IF NameTaken(products, id, upd)
       THEN /\ last' = UpdateRequest(id, upd, 400,
                                     "Cannot update the name, because name already exists!")
            /\ products' = [products EXCEPT
                               ![id] = Updated(products[id], [upd EXCEPT !.name = None])]
       ELSE /\ products' = [products EXCEPT ![id] = Updated(products[id], upd)]
            /\ last' = UpdateRequest(id, upd, 200, "")
    /\ UNCHANGED <<carts, cart_items, prev, sess, hist>>

\* PUT /products/{id}
update_product(id, upd) ==
    /\ IF id \notin DOMAIN products
       THEN /\ last' = UpdateRequest(id, upd, 404, "Desired product does not exist!")
            /\ UNCHANGED products
       ELSE IF NameTaken(products, id, upd)
       THEN /\ last' = UpdateRequest(id, upd, 400,
                                     "Cannot update the name, because name already exists!")
            /\ UNCHANGED products
       ELSE /\ products' = [products EXCEPT ![id] = Updated(products[id], upd)]
            /\ last' = UpdateRequest(id, upd, 200, "")
    /\ UNCHANGED <<carts, cart_items, prev, sess, hist>>

\* The NULL of the column cart_items.product_id (no product has this id).
NoProduct == 0

\* Mutant of Orphaned: the referencing cart items deleted with the product.
Orphaned_cascade(I, id) == [i \in {j \in DOMAIN I : I[j].product_id # id} |-> I[i]]

\* db.delete(product) and the flush of the commit: Product.cart_items
\* (database.py line 29) is a relationship with no delete cascade, so the ORM
\* sets product_id of the product's cart items to NULL before it deletes the row.
Orphaned(I, id) ==
    [i \in DOMAIN I |-> IF I[i].product_id = id THEN [I[i] EXCEPT !.product_id = NoProduct]
                                                ELSE I[i]]

\* DELETE /products/{id}
delete_product(id) ==
    /\ IF id \notin DOMAIN products
       THEN /\ last' = [Response("deleteProduct", 404, "Desired product not found")
                           EXCEPT !.id = id]
            /\ UNCHANGED <<products, cart_items>>
       ELSE /\ products' = Delete(products, id)
            /\ cart_items' = Orphaned(cart_items, id)
            /\ last' = [Response("deleteProduct", 200, "") EXCEPT !.id = id]
    /\ UNCHANGED <<carts, prev, sess, hist>>

\* ------------------------------------------------------------- carts
\* POST /cart
create_cart ==
    /\ NextCartId \in CartIds
    /\ carts' = carts \cup {NextCartId}
    /\ last' = [Response("createCart", 200, "") EXCEPT !.cart_id = NextCartId]
    /\ UNCHANGED <<products, cart_items, prev, sess, hist>>

Min(S) == CHOOSE m \in S : \A x \in S : m <= x

\* Mutant of FormattedItems: an item whose product is gone is listed too.
RECURSIVE FormattedItems_all(_, _, _)
FormattedItems_all(I, P, ids) ==
    IF ids = {} THEN <<>>
    ELSE <<[id |-> Min(ids), product_id |-> I[Min(ids)].product_id,
            quantity |-> I[Min(ids)].quantity,
            product |-> IF I[Min(ids)].product_id \in DOMAIN P
                        THEN Some(P[I[Min(ids)].product_id]) ELSE None]>>
         \o FormattedItems_all(I, P, ids \ {Min(ids)})

\* get_cart, lines 184-195: one CartItemResponse per row of `ids` (in row id
\* order) whose product db.get finds; a row whose product is gone is skipped.
RECURSIVE FormattedItems(_, _, _)
FormattedItems(I, P, ids) ==
    IF ids = {} THEN <<>>
    ELSE (IF I[Min(ids)].product_id \in DOMAIN P
          THEN <<[id |-> Min(ids), product_id |-> I[Min(ids)].product_id,
                  quantity |-> I[Min(ids)].quantity,
                  product |-> Some(P[I[Min(ids)].product_id])]>>
          ELSE <<>>)
         \o FormattedItems(I, P, ids \ {Min(ids)})

\* GET /cart/{cart_id}
get_cart(c) ==
    /\ IF c \notin carts
       THEN last' = [Response("getCart", 404, "Cart not found") EXCEPT !.cart_id = c]
       ELSE last' = [Response("getCart", 200, "") EXCEPT !.cart_id = c,
                        !.items = FormattedItems(cart_items, products,
                                                 CartItemsOf(cart_items, c))]
    /\ UNCHANGED <<products, carts, cart_items, prev, sess, hist>>

Pass == [status |-> 0, detail |-> ""]
Fail(status, detail) == [status |-> status, detail |-> detail]

\* Mutant of CheckProduct: the stock comparison reversed.
CheckProduct_reversed(C, P, c, p, q) ==
    IF c \notin C THEN Fail(404, "Cart not found")
    ELSE IF p \notin DOMAIN P THEN Fail(404, "Product not found")
    ELSE IF P[p].stock > q THEN Fail(400, "Not enough stock")
    ELSE Pass

\* Mutant of CheckProduct: the product looked up before the cart.
CheckProduct_productFirst(C, P, c, p, q) ==
    IF p \notin DOMAIN P THEN Fail(404, "Product not found")
    ELSE IF c \notin C THEN Fail(404, "Cart not found")
    ELSE IF P[p].stock < q THEN Fail(400, "Not enough stock")
    ELSE Pass

\* add_to_cart, lines 210-219: the cart, the product and its stock.
CheckProduct(C, P, c, p, q) ==
    IF c \notin C THEN Fail(404, "Cart not found")
    ELSE IF p \notin DOMAIN P THEN Fail(404, "Product not found")
    ELSE IF P[p].stock < q THEN Fail(400, "Not enough stock")
    ELSE Pass

\* add_to_cart, line 228: scalar_one_or_none() of the rows of (c, p); 0 is None.
ExistingItem(I, c, p) == IF ItemsOf(I, c, p) = {} THEN 0 ELSE CHOOSE i \in ItemsOf(I, c, p) : TRUE

\* add_to_cart, lines 222-233: the existing item, checked against `stock`, the
\* stock the session read at line 215.  scalar_one_or_none raises
\* MultipleResultsFound on more than one row.
CheckItem(I, c, p, q, stock) ==
    IF Cardinality(ItemsOf(I, c, p)) > 1 THEN Fail(500, "MultipleResultsFound")
    ELSE IF ExistingItem(I, c, p) # 0 /\ stock < I[ExistingItem(I, c, p)].quantity + q
    THEN Fail(400, "Not enough stock")
    ELSE Pass

\* Mutant of ItemCommitted: a new row on every addition, no merge.
ItemCommitted_nomerge(I, c, p, q, existing, existing_quantity) ==
    Insert(I, NextId(I), [cart_id |-> c, product_id |-> p, quantity |-> q])

\* Mutant of ItemCommitted: the existing item's quantity overwritten.
ItemCommitted_overwrite(I, c, p, q, existing, existing_quantity) ==
    IF existing # 0
    THEN [I EXCEPT ![existing].quantity = q]
    ELSE Insert(I, NextId(I), [cart_id |-> c, product_id |-> p, quantity |-> q])

\* add_to_cart, lines 234-246: the first commit.  The UPDATE writes the quantity
\* the session loaded at line 228 plus q; the INSERT takes the next row id.
ItemCommitted(I, c, p, q, existing, existing_quantity) ==
    IF existing # 0
    THEN [I EXCEPT ![existing].quantity = existing_quantity + q]
    ELSE Insert(I, NextId(I), [cart_id |-> c, product_id |-> p, quantity |-> q])

\* Mutant of StockCommitted: the stock decremented twice.
StockCommitted_twice(P, p, q, stock) == [P EXCEPT ![p].stock = stock - q - q]

\* add_to_cart, lines 249-251: the second commit.  The UPDATE writes the stock
\* the session read at line 249 (`stock`) less q.
StockCommitted(P, p, q, stock) == [P EXCEPT ![p].stock = stock - q]

AddRequest(c, p, q) ==
    [Response("addItem", 0, "") EXCEPT !.cart_id = c, !.product_id = p, !.quantity = q]

\* The response of a completed add_to_cart, with the item it wrote.
AddDone(c, p, q, existing, existing_quantity, I, stock_before) ==
    [AddRequest(c, p, q) EXCEPT !.status = 200,
        !.item_id = IF existing # 0 THEN existing ELSE NextId(I),
        !.qty_before = existing_quantity, !.stock_before = stock_before]

AddFailed(c, p, q, r) == [AddRequest(c, p, q) EXCEPT !.status = r.status, !.detail = r.detail]

\* POST /cart/{cart_id}/items, served with no other request in between.
add_to_cart(c, p, q) ==
    LET r1 == CheckProduct(carts, products, c, p, q)
        r2 == CheckItem(cart_items, c, p, q, products[p].stock)
        existing == ExistingItem(cart_items, c, p)
        existing_quantity == IF existing # 0 THEN cart_items[existing].quantity ELSE 0
    IN  /\ IF r1.status # 0
           THEN /\ last' = AddFailed(c, p, q, r1)
                /\ UNCHANGED <<products, cart_items>>
           ELSE IF r2.status # 0
           THEN /\ last' = AddFailed(c, p, q, r2)
                /\ UNCHANGED <<products, cart_items>>
           ELSE /\ existing = 0 => NextId(cart_items) \in ItemIds
                /\ cart_items' = ItemCommitted(cart_items, c, p, q, existing, existing_quantity)
                /\ products' = StockCommitted(products, p, q, products[p].stock)
                /\ last' = AddDone(c, p, q, existing, existing_quantity, cart_items,
                                   products[p].stock)
        /\ prev' = last
    /\ UNCHANGED <<carts, sess, hist>>

\* Mutant of CheckRemove: the item's cart not compared with the request's.
CheckRemove_anyCart(C, I, c, it) ==
    IF c \notin C THEN Fail(404, "Cart not found")
    ELSE IF it \notin DOMAIN I THEN Fail(404, "Cart item not found")
    ELSE Pass

\* remove_from_cart, lines 288-295.
CheckRemove(C, I, c, it) ==
    IF c \notin C THEN Fail(404, "Cart not found")
    ELSE IF it \notin DOMAIN I \/ I[it].cart_id # c THEN Fail(404, "Cart item not found")
    ELSE Pass

\* Mutant of StockRestored: one unit restored whatever the item's quantity.
StockRestored_one(P, p, quantity) == [P EXCEPT ![p].stock = P[p].stock + 1]

\* remove_from_cart, line 299.
StockRestored(P, p, quantity) == [P EXCEPT ![p].stock = P[p].stock + quantity]

RemoveRequest(c, it) ==
    [Response("removeItem", 0, "") EXCEPT !.cart_id = c, !.item_id = it]

\* DELETE /cart/{cart_id}/items/{item_id}.  db.get(Product, ...) of a deleted
\* product is None, and line 299 raises on it before anything is committed.
remove_from_cart(c, it) ==
    LET r == CheckRemove(carts, cart_items, c, it) IN
    /\ IF r.status # 0
       THEN /\ last' = [RemoveRequest(c, it) EXCEPT !.status = r.status, !.detail = r.detail]
            /\ UNCHANGED <<products, cart_items>>
       ELSE IF cart_items[it].product_id \notin DOMAIN products
       THEN /\ last' = [RemoveRequest(c, it) EXCEPT !.status = 500, !.detail = "AttributeError",
                           !.product_id = cart_items[it].product_id]
            /\ UNCHANGED <<products, cart_items>>
       ELSE /\ products' = StockRestored(products, cart_items[it].product_id,
                                         cart_items[it].quantity)
            /\ cart_items' = Delete(cart_items, it)
            /\ last' = [RemoveRequest(c, it) EXCEPT !.status = 200,
                           !.product_id = cart_items[it].product_id,
                           !.quantity = cart_items[it].quantity,
                           !.stock_before = products[cart_items[it].product_id].stock]
    /\ prev' = last
    /\ UNCHANGED <<carts, sess, hist>>

\* ------------------------------------------------------------- one at a time
Updates == [name : Opt(Names), price : Opt(Prices), description : Opt(Texts),
            stock : Opt(StockInputs)]

NoHist == [stock0 |-> <<>>, sold |-> <<>>, started |-> 0]

\* The store after create_tables on a new database.
Init ==
    /\ products = <<>>
    /\ carts = {}
    /\ cart_items = <<>>
    /\ last = NoRequest
    /\ prev = NoRequest
    /\ sess = [s \in Sessions |-> Idle]
    /\ hist = NoHist

CreateProduct == \E n \in Names, pr \in Prices, d \in Opt(Texts), st \in StockInputs :
                    create_product(n, pr, d, st)
UpdateProduct == \E id \in ProductIds, upd \in Updates : update_product(id, upd)
DeleteProduct == \E id \in ProductIds : delete_product(id)
CreateCart == create_cart
AddItem == \E c \in CartIds, p \in ProductIds, q \in Quantities : add_to_cart(c, p, q)
RemoveItem == \E c \in CartIds, it \in ItemIds : remove_from_cart(c, it)

\* The product service, from the empty store.
NextProducts ==
    \/ CreateProduct
    \/ UpdateProduct
    \/ DeleteProduct

SpecProducts == Init /\ [][NextProducts]_vars

\* A store with the products and carts already created (create_product with
\* distinct names and a stock of Stocks, create_cart) and no item yet.
Catalogue == {P \in [ProductIds -> [name : Names, price : {5}, description : {None},
                                   stock : Stocks]] :
                 P[1].name = "Widget" /\ P[2].name = "Gadget"}

InitCart ==
    /\ products \in Catalogue
    /\ carts = CartIds
    /\ cart_items = <<>>
    /\ last = NoRequest
    /\ prev = NoRequest
    /\ sess = [s \in Sessions |-> Idle]
    /\ hist = [stock0 |-> [p \in ProductIds |-> products[p].stock],
               sold |-> [p \in ProductIds |-> 0], started |-> 0]

\* The cart service: add_to_cart and remove_from_cart requests one at a time.
NextCart ==
    \/ AddItem
    \/ RemoveItem

SpecCart == InitCart /\ [][NextCart]_vars

\* The store of InitCart with every product's stock at MaxQty.
InitShop == InitCart /\ \A p \in ProductIds : products[p].stock = MaxQty

\* The shop: every handler of the cart service and, of the product service,
\* delete_product and update_product of the price, from a store of two
\* products and one cart.
InitOneCart ==
    /\ products \in Catalogue /\ \A p \in ProductIds : products[p].stock = MaxQty
    /\ carts = {1}
    /\ cart_items = <<>>
    /\ last = NoRequest
    /\ prev = NoRequest
    /\ sess = [s \in Sessions |-> Idle]
    /\ hist = [stock0 |-> [p \in ProductIds |-> products[p].stock],
               sold |-> [p \in ProductIds |-> 0], started |-> 0]

PriceUpdates == {upd \in Updates : SuppliedFields(upd) = {"price"}}
UpdatePrice == \E id \in ProductIds, upd \in PriceUpdates : update_product(id, upd)
GetCart == \E c \in CartIds : get_cart(c)

NextShop ==
    \/ CreateCart
    \/ GetCart
    \/ AddItem
    \/ RemoveItem
    \/ UpdatePrice
    \/ DeleteProduct

SpecShop == InitOneCart /\ [][NextShop]_vars

\* The quantities CartItemCreate accepts: any integer (quantity: int = 1).
AnyQuantities == (0 - 1)..MaxQty

\* add_to_cart with any accepted quantity, while the stock it leaves is at
\* most MaxQty (a negative quantity raises the stock).
AddAnyQuantity == \E c \in CartIds, p \in ProductIds, q \in AnyQuantities :
                     /\ p \in DOMAIN products => products[p].stock - q <= MaxQty
                     /\ add_to_cart(c, p, q)

NextAnyQuantity ==
    \/ AddAnyQuantity
    \/ RemoveItem

SpecAnyQuantity == InitShop /\ [][NextAnyQuantity]_vars

\* ------------------------------------------------------------- concurrent add_to_cart
\* A request of session s runs from one await to the next in one step.
\* Lines 210-219: db.get(Cart), db.get(Product) and the stock check.  The
\* session keeps the stock it read.
Begin(s, c, p, q) ==
    LET r == CheckProduct(carts, products, c, p, q) IN
    /\ sess[s].pc = "idle"
    /\ hist.started < MaxRequests
    /\ hist' = [hist EXCEPT !.started = @ + 1]
    /\ IF r.status # 0
       THEN /\ last' = AddFailed(c, p, q, r)
            /\ UNCHANGED sess
       ELSE /\ sess' = [sess EXCEPT ![s] = [Idle EXCEPT !.pc = "select", !.cart_id = c,
                            !.product_id = p, !.quantity = q, !.stock = products[p].stock,
                            !.stock_before = products[p].stock]]
            /\ UNCHANGED last
    /\ UNCHANGED <<products, carts, cart_items, prev>>

\* Lines 222-233: the select of the existing item and its check.
Select(s) ==
    LET L == sess[s]
        r == CheckItem(cart_items, L.cart_id, L.product_id, L.quantity, L.stock)
        existing == ExistingItem(cart_items, L.cart_id, L.product_id)
    IN  /\ L.pc = "select"
        /\ IF r.status # 0
           THEN /\ last' = AddFailed(L.cart_id, L.product_id, L.quantity, r)
                /\ sess' = [sess EXCEPT ![s] = Idle]
           ELSE /\ sess' = [sess EXCEPT ![s].pc = "commit_item", ![s].existing = existing,
                                ![s].existing_quantity =
                                    IF existing # 0 THEN cart_items[existing].quantity ELSE 0]
                /\ UNCHANGED last
        /\ UNCHANGED <<products, carts, cart_items, prev, hist>>

\* Lines 234-246: the first commit (the item).
CommitItem(s) ==
    LET L == sess[s] IN
    /\ L.pc = "commit_item"
    /\ L.existing = 0 => NextId(cart_items) \in ItemIds
    /\ cart_items' = ItemCommitted(cart_items, L.cart_id, L.product_id, L.quantity,
                                   L.existing, L.existing_quantity)
    /\ sess' = [sess EXCEPT ![s].pc = "refresh",
                    ![s].existing = IF L.existing # 0 THEN L.existing ELSE NextId(cart_items)]
    /\ UNCHANGED <<products, carts, last, prev, hist>>

\* Line 249: db.refresh(product) reads the stock again.
RefreshProduct(s) ==
    /\ sess[s].pc = "refresh"
    /\ sess' = [sess EXCEPT ![s].pc = "commit_stock",
                    ![s].stock = products[sess[s].product_id].stock]
    /\ UNCHANGED <<products, carts, cart_items, last, prev, hist>>

\* Lines 250-279: the second commit (the stock) and the response.
CommitStock(s) ==
    LET L == sess[s] IN
    /\ L.pc = "commit_stock"
    /\ products' = StockCommitted(products, L.product_id, L.quantity, L.stock)
    /\ last' = [AddRequest(L.cart_id, L.product_id, L.quantity) EXCEPT !.status = 200,
                   !.item_id = L.existing, !.qty_before = L.existing_quantity,
                   !.stock_before = L.stock_before]
    /\ hist' = [hist EXCEPT !.sold[L.product_id] = @ + L.quantity]
    /\ sess' = [sess EXCEPT ![s] = Idle]
    /\ UNCHANGED <<carts, cart_items, prev>>

\* An await of the session raises (the store is unavailable, the client is
\* gone): the handler ends there, and what it committed stays committed.
Abort(s) ==
    /\ sess[s].pc \in {"select", "commit_item", "refresh", "commit_stock"}
    /\ last' = [AddRequest(sess[s].cart_id, sess[s].product_id, sess[s].quantity)
                   EXCEPT !.status = 500, !.detail = "store unavailable"]
    /\ sess' = [sess EXCEPT ![s] = Idle]
    /\ UNCHANGED <<products, carts, cart_items, prev, hist>>

NextConc ==
    \/ \E s \in Sessions, c \in CartIds, p \in ProductIds, q \in Quantities : Begin(s, c, p, q)
    \/ \E s \in Sessions : Select(s)
    \/ \E s \in Sessions : CommitItem(s)
    \/ \E s \in Sessions : RefreshProduct(s)
    \/ \E s \in Sessions : CommitStock(s)
    \/ \E s \in Sessions : Abort(s)

SpecConc == InitCart /\ [][NextConc]_vars

\* ------------------------------------------------------------- remove_from_cart, await by await
\* Requests are served one at a time, and a remove_from_cart request runs from
\* one await to the next in one step and may stop at any of them.
\* Lines 288-295: db.get(Cart), db.get(CartItem) and the checks.
RemoveBegin(s, c, it) ==
    LET r == CheckRemove(carts, cart_items, c, it) IN
    /\ \A t \in Sessions : sess[t].pc = "idle"
    /\ IF r.status # 0
       THEN /\ last' = [RemoveRequest(c, it) EXCEPT !.status = r.status, !.detail = r.detail]
            /\ UNCHANGED sess
       ELSE /\ sess' = [sess EXCEPT ![s] = [Idle EXCEPT !.pc = "get_product", !.cart_id = c,
                            !.existing = it, !.existing_quantity = cart_items[it].quantity,
                            !.product_id = cart_items[it].product_id]]
            /\ UNCHANGED last
    /\ UNCHANGED <<products, carts, cart_items, prev, hist>>

\* Lines 298-299: db.get(Product); the session adds the quantity to the stock
\* it read.  On a deleted product line 299 raises.
RemoveGetProduct(s) ==
    LET L == sess[s] IN
    /\ L.pc = "get_product"
    /\ IF L.product_id \notin DOMAIN products
       THEN /\ last' = [RemoveRequest(L.cart_id, L.existing) EXCEPT !.status = 500,
                           !.detail = "AttributeError", !.product_id = L.product_id]
            /\ sess' = [sess EXCEPT ![s] = Idle]
       ELSE /\ sess' = [sess EXCEPT ![s].pc = "commit",
                            ![s].stock_before = products[L.product_id].stock,
                            ![s].stock = products[L.product_id].stock + L.existing_quantity]
            /\ UNCHANGED last
    /\ UNCHANGED <<products, carts, cart_items, prev, hist>>

\* Mutant of RemoveCommitted: the stock committed, the deletion left out.
RemoveCommitted_stockOnly(P, I, p, it, stock) ==
    [products |-> [P EXCEPT ![p].stock = stock], cart_items |-> I]

\* Lines 302-303: the one commit of remove_from_cart writes the stock the
\* session holds and deletes the item's row.
RemoveCommitted(P, I, p, it, stock) ==
    [products |-> [P EXCEPT ![p].stock = stock], cart_items |-> Delete(I, it)]

\* Lines 302-330: db.delete, the commit and the response.
RemoveCommit(s) ==
    LET L == sess[s]
        store == RemoveCommitted(products, cart_items, L.product_id, L.existing, L.stock)
    IN  /\ L.pc = "commit"
        /\ products' = store.products
        /\ cart_items' = store.cart_items
        /\ last' = [RemoveRequest(L.cart_id, L.existing) EXCEPT !.status = 200,
                       !.product_id = L.product_id, !.quantity = L.existing_quantity,
                       !.stock_before = L.stock_before]
        /\ prev' = last
        /\ sess' = [sess EXCEPT ![s] = Idle]
        /\ UNCHANGED <<carts, hist>>

\* An await of the request raises: the handler ends with nothing committed.
RemoveAbort(s) ==
    /\ sess[s].pc \in {"get_product", "commit"}
    /\ last' = [RemoveRequest(sess[s].cart_id, sess[s].existing) EXCEPT !.status = 500,
                   !.detail = "store unavailable"]
    /\ sess' = [sess EXCEPT ![s] = Idle]
    /\ UNCHANGED <<products, carts, cart_items, prev, hist>>

AddItemBetween == (\A t \in Sessions : sess[t].pc = "idle") /\ AddItem

NextRemove ==
    \/ AddItemBetween
    \/ \E s \in Sessions, c \in CartIds, it \in ItemIds : RemoveBegin(s, c, it)
    \/ \E s \in Sessions : RemoveGetProduct(s)
    \/ \E s \in Sessions : RemoveCommit(s)
    \/ \E s \in Sessions : RemoveAbort(s)

SpecRemove == InitShop /\ [][NextRemove]_vars

\* ------------------------------------------------------------- the catalogue beside carts
\* The product service on a store that holds carts and cart items: the store
\* after two create_product, two create_cart, one add_to_cart per product and
\* an update_product of each stock to MaxStock.
InitItems ==
    /\ products = [p \in ProductIds |->
                     [name |-> IF p = 1 THEN "Widget" ELSE "Gadget", price |-> 5,
                      description |-> None, stock |-> MaxStock]]
    /\ carts = CartIds
    /\ cart_items = [i \in ItemIds |-> [cart_id |-> i, product_id |-> i, quantity |-> 1]]
    /\ last = NoRequest
    /\ prev = NoRequest
    /\ sess = [s \in Sessions |-> Idle]
    /\ hist = NoHist

SpecCatalogue == InitItems /\ [][NextProducts]_vars

\* ------------------------------------------------------------- properties
RECURSIVE SumQty(_, _)
\* The quantities of the rows `ids` of cart_items, summed.
SumQty(I, ids) ==
    IF ids = {} THEN 0
    ELSE LET i == CHOOSE x \in ids : TRUE IN I[i].quantity + SumQty(I, ids \ {i})

ItemsOfProduct(I, p) == {i \in DOMAIN I : I[i].product_id = p}

AddOk(r) == r.op = "addItem" /\ r.status = 200
RemoveOf(r, a) == r.op = "removeItem" /\ r.cart_id = a.cart_id /\ r.item_id = a.item_id

\* C1: with add_to_cart requests for the same product running concurrently, the
\* stock never goes negative and the stock taken off equals the quantities of
\* the requests that succeeded.
C1_NeverOversold ==
    \A p \in DOMAIN products :
        /\ products[p].stock >= 0
        /\ hist.stock0[p] - products[p].stock = hist.sold[p]

\* C2: in every state, also one left by a request that stopped between its two
\* commits, the quantities committed to cart items of a product equal the stock
\* taken off it: neither mutation is committed without the other.
C2_ItemAndStockTogether ==
    \A p \in DOMAIN products :
        SumQty(cart_items, ItemsOfProduct(cart_items, p)) = hist.stock0[p] - products[p].stock

\* C3: with add_to_cart and remove_from_cart one at a time, quantities >= 1 and
\* initial stocks >= 0, no product's stock is negative.
C3_StockNonNegative == \A p \in DOMAIN products : products[p].stock >= 0

C3_Witness ==
    /\ prev.op = "removeItem" /\ prev.status = 200
    /\ AddOk(last)
    /\ products[last.product_id].stock = 0

\* C4 as stated: after a successful add_to_cart and then remove_from_cart of the
\* item it wrote, the stock is what it was before the add and the item is gone.
C4_RemoveRestoresPreAddStock ==
    (AddOk(prev) /\ RemoveOf(last, prev)) =>
        /\ products[prev.product_id].stock = prev.stock_before
        /\ last.item_id \notin DOMAIN cart_items

\* C4 amended: the remove succeeds, the item is gone, and the stock is what it
\* was before the add plus the quantity the item already held before the add
\* (nothing when the add created the item).
C4_RemoveRestoresWholeItem ==
    (AddOk(prev) /\ RemoveOf(last, prev)) =>
        /\ last.status = 200
        /\ products[prev.product_id].stock = prev.stock_before + prev.qty_before
        /\ last.item_id \notin DOMAIN cart_items

C4_Witness ==
    /\ AddOk(prev) /\ RemoveOf(last, prev)
    /\ prev.qty_before > 0
    /\ prev.quantity = MaxQty

\* C5: add_to_cart for an existing cart and product with quantity > stock
\* answers 400 and changes neither the stock nor any cart item.
C5_InsufficientStockRejected ==
    [][(/\ last'.op = "addItem"
        /\ last'.cart_id \in carts
        /\ last'.product_id \in DOMAIN products
        /\ last'.quantity > products[last'.product_id].stock)
       => (/\ last'.status = 400
           /\ products' = products
           /\ cart_items' = cart_items)]_vars

C5_Witness ==
    /\ last.op = "addItem" /\ last.status = 400
    /\ last.quantity > products[last.product_id].stock
    /\ ItemsOf(cart_items, last.cart_id, last.product_id) # {}

\* C6: two successive additions of a product to a cart that held none of it,
\* q1 then q2, leave one cart item of quantity q1 + q2; the stock goes down by
\* q1 at the first and by q2 at the second.
C6_AdditionsMerge ==
    (/\ AddOk(prev) /\ prev.qty_before = 0
     /\ AddOk(last) /\ last.cart_id = prev.cart_id /\ last.product_id = prev.product_id)
    => (/\ ItemsOf(cart_items, last.cart_id, last.product_id) = {prev.item_id}
        /\ cart_items[prev.item_id].quantity = prev.quantity + last.quantity
        /\ last.stock_before = prev.stock_before - prev.quantity
        /\ products[last.product_id].stock = last.stock_before - last.quantity)

C6_Witness ==
    /\ AddOk(prev) /\ prev.qty_before = 0
    /\ AddOk(last) /\ last.cart_id = prev.cart_id /\ last.product_id = prev.product_id
    /\ prev.quantity # last.quantity

\* C7: there is at most one cart item per (cart, product), also with
\* add_to_cart requests for the same cart and product running concurrently.
C7_OneItemPerCartAndProduct ==
    \A c \in carts, p \in DOMAIN products : Cardinality(ItemsOf(cart_items, c, p)) <= 1

\* C8: with create_product, update_product and delete_product one at a time,
\* no two stored products have the same name.
C8_NamesUnique ==
    \A i, j \in DOMAIN products : products[i].name = products[j].name => i = j

C8_Witness ==
    /\ Cardinality(DOMAIN products) = 2
    /\ last.op = "updateProduct" /\ last.status = 200 /\ last.name # ""
    /\ products[last.id].name = last.name

\* C9: update_product with the product's own current name succeeds.
C9_OwnNameAccepted ==
    (/\ last.op = "updateProduct"
     /\ last.id \in DOMAIN products
     /\ last.name = products[last.id].name)
    => last.status = 200

\* C13: remove_from_cart answers 404 when the cart is absent, the item is absent
\* or the item is of another cart, and then changes no product and no cart item.
C13_RemoveNotFound ==
    [][(/\ last'.op = "removeItem"
        /\ \/ last'.cart_id \notin carts
           \/ last'.item_id \notin DOMAIN cart_items
           \/ cart_items[last'.item_id].cart_id # last'.cart_id)
       => (/\ last'.status = 404
           /\ products' = products
           /\ cart_items' = cart_items)]_vars

C13_Witness ==
    /\ last.op = "removeItem" /\ last.status = 404
    /\ last.cart_id \in carts
    /\ last.item_id \in DOMAIN cart_items
    /\ cart_items[last.item_id].cart_id # last.cart_id

\* The entry get_cart is to return for the stored item i.
EntryOf(i) ==
    [id |-> i, product_id |-> cart_items[i].product_id, quantity |-> cart_items[i].quantity,
     product |-> Some(products[cart_items[i].product_id])]

\* C14: in every state, also one left by a remove_from_cart that stopped at an
\* await, a product's stock and the quantities of its cart items add up to its
\* initial stock: no stock is restored with the item still stored, and no item
\* is deleted with its stock not restored.
C14_RestoreAndDeleteTogether ==
    \A p \in DOMAIN products :
        products[p].stock + SumQty(cart_items, ItemsOfProduct(cart_items, p)) = hist.stock0[p]

C14_Witness ==
    /\ last.op = "removeItem" /\ last.status = 500 /\ last.detail = "store unavailable"
    /\ prev.op = "removeItem" /\ prev.status = 200
    /\ last.item_id \in DOMAIN cart_items

\* C15: update_product leaves every field the request does not supply, every
\* other product, every cart and every cart item as it was.
C15_OnlySuppliedFieldsChange ==
    [][(last'.op = "updateProduct") =>
        /\ DOMAIN products' = DOMAIN products
        /\ \A j \in DOMAIN products :
              \A f \in {"name", "price", "description", "stock"} :
                  (j # last'.id \/ f \notin last'.fields) => products'[j][f] = products[j][f]
        /\ carts' = carts
        /\ cart_items' = cart_items]_vars

C15_Witness ==
    /\ last.op = "updateProduct" /\ last.status = 200
    /\ last.fields = {"price", "stock"}
    /\ products[last.id].description # None
    /\ Cardinality(DOMAIN products) = 2
    /\ \E i \in DOMAIN cart_items : cart_items[i].product_id = last.id

\* C19: with add_to_cart and remove_from_cart one at a time, a product's stock
\* plus the quantities of the cart items that reference it stays what it was.
C19_InventoryConserved ==
    \A p \in DOMAIN products :
        LET held == {i \in DOMAIN cart_items : cart_items[i].product_id = p} IN
        products[p].stock + SumQty(cart_items, held) = hist.stock0[p]

C19_Witness ==
    /\ last.op = "removeItem" /\ last.status = 200
    /\ AddOk(prev) /\ prev.qty_before > 0
    /\ \E i \in DOMAIN cart_items : cart_items[i].product_id = last.product_id

\* C16 as stated: the response of get_cart has exactly one entry per stored
\* item of the cart, each with the current values of the item's product.
C16_EveryStoredItemReturned ==
    (last.op = "getCart" /\ last.status = 200) =>
        /\ Len(last.items) = Cardinality(CartItemsOf(cart_items, last.cart_id))
        /\ \A i \in CartItemsOf(cart_items, last.cart_id) :
               /\ cart_items[i].product_id \in DOMAIN products
               /\ \E k \in 1..Len(last.items) : last.items[k] = EntryOf(i)

\* C16 amended: the response has exactly one entry per stored item of the cart
\* whose product is stored, each with the current values of that product; an
\* item whose product was deleted has no entry.
C16_ItemsWithProductReturned ==
    (last.op = "getCart" /\ last.status = 200) =>
        LET shown == {i \in CartItemsOf(cart_items, last.cart_id) :
                         cart_items[i].product_id \in DOMAIN products}
        IN  /\ Len(last.items) = Cardinality(shown)
            /\ \A i \in shown : \E k \in 1..Len(last.items) : last.items[k] = EntryOf(i)

C16_Witness ==
    /\ last.op = "getCart" /\ last.status = 200
    /\ \E i, j \in CartItemsOf(cart_items, last.cart_id) :
          /\ cart_items[i].product_id \notin DOMAIN products
          /\ cart_items[j].product_id \in DOMAIN products
          /\ products[cart_items[j].product_id].price = 9

\* C17: add_to_cart stops at the first failing check, in this order: cart
\* absent (404), product absent (404), stock < quantity (400), and for an
\* existing item stock < its quantity + quantity (400), the stock being the
\* current one; otherwise it succeeds.
C17_CheckOrder ==
    [][(last'.op = "addItem") =>
        LET c == last'.cart_id
            p == last'.product_id
            q == last'.quantity
        IN  IF c \notin carts
            THEN last'.status = 404 /\ last'.detail = "Cart not found"
            ELSE IF p \notin DOMAIN products
            THEN last'.status = 404 /\ last'.detail = "Product not found"
            ELSE IF products[p].stock < q
            THEN last'.status = 400 /\ last'.detail = "Not enough stock"
            ELSE IF \E i \in DOMAIN cart_items :
                       /\ cart_items[i].cart_id = c /\ cart_items[i].product_id = p
                       /\ products[p].stock < cart_items[i].quantity + q
            THEN last'.status = 400 /\ last'.detail = "Not enough stock"
            ELSE last'.status = 200]_vars

C17_Witness ==
    /\ last.op = "addItem" /\ last.status = 400
    /\ last.cart_id \in carts /\ last.product_id \in DOMAIN products
    /\ products[last.product_id].stock >= last.quantity
    /\ \E i \in ItemsOf(cart_items, last.cart_id, last.product_id) :
          products[last.product_id].stock < cart_items[i].quantity + last.quantity
    /\ products[last.product_id].stock < MaxQty

\* C18 as stated: delete_product of a stored product removes that row and
\* leaves every cart item, cart and other product as it was.
C18_DeleteLeavesItems ==
    [][(last'.op = "deleteProduct" /\ last'.id \in DOMAIN products)
       => (/\ last'.status = 200
           /\ products' = [i \in DOMAIN products \ {last'.id} |-> products[i]]
           /\ cart_items' = cart_items
           /\ carts' = carts)]_vars

\* C18 amended: delete_product of a stored product removes that row and sets
\* product_id of the cart items that reference it to NULL; their cart_id and
\* quantity, every other cart item, every cart and every other product stay.
C18_DeleteOrphansItems ==
    [][(last'.op = "deleteProduct" /\ last'.id \in DOMAIN products)
       => (/\ last'.status = 200
           /\ products' = [i \in DOMAIN products \ {last'.id} |-> products[i]]
           /\ DOMAIN cart_items' = DOMAIN cart_items
           /\ \A i \in DOMAIN cart_items :
                 /\ cart_items'[i].cart_id = cart_items[i].cart_id
                 /\ cart_items'[i].quantity = cart_items[i].quantity
                 /\ cart_items'[i].product_id =
                        IF cart_items[i].product_id = last'.id THEN NoProduct
                        ELSE cart_items[i].product_id
           /\ carts' = carts)]_vars

C18_Witness ==
    /\ last.op = "deleteProduct" /\ last.status = 200
    /\ \E i \in DOMAIN cart_items : cart_items[i].product_id = NoProduct
    /\ \E i \in DOMAIN cart_items : cart_items[i].product_id \in DOMAIN products

\* C20: remove_from_cart of an item of an existing cart succeeds and deletes
\* the item, also after the item's product was deleted.
C20_RemoveAlwaysSucceeds ==
    [][(/\ last'.op = "removeItem"
        /\ last'.cart_id \in carts
        /\ last'.item_id \in DOMAIN cart_items
        /\ cart_items[last'.item_id].cart_id = last'.cart_id)
       => (last'.status = 200 /\ last'.item_id \notin DOMAIN cart_items')]_vars

\* C12: every stored cart item has a quantity >= 1, whatever integer quantities
\* the add_to_cart requests carry.
C12_QuantityPositive == \A i \in DOMAIN cart_items : cart_items[i].quantity >= 1

\* C11: update_product with a name another product has answers 400 and leaves
\* every product as it was, whatever other fields the request supplies.
C11_CollisionChangesNothing ==
    [][(/\ last'.op = "updateProduct"
        /\ last'.id \in DOMAIN products
        /\ \E j \in DOMAIN products : j # last'.id /\ products[j].name = last'.name)
       => (last'.status = 400 /\ products' = products)]_vars

C11_Witness ==
    /\ last.op = "updateProduct" /\ last.status = 400
    /\ last.id \in DOMAIN products
    /\ \E j \in DOMAIN products : j # last.id /\ products[j].name = last.name
    /\ last.fields = {"name", "price", "description", "stock"}

\* C10: create_product with the name of a stored product answers 400 and
\* leaves the products table as it was.
C10_DuplicateNameRejected ==
    [][(last'.op = "createProduct" /\ (\E i \in DOMAIN products : products[i].name = last'.name))
       => (last'.status = 400 /\ products' = products)]_vars

C10_Witness ==
    /\ last.op = "createProduct" /\ last.status = 400
    /\ \E i \in DOMAIN products : products[i].name = last.name

====
